---- MODULE Spec2Model ----
(***************************************************************************)
(* A model of vdom/src/node.rs: the node / tag / text variants, the nested *)
(* pair encoding of node lists and the visitor / differ double dispatch.   *)
(*                                                                         *)
(* A traversal is a chain of synchronous calls.  The model keeps the calls *)
(* that are still to be made in `stack` (the head is the call that runs    *)
(* next) and the callbacks the consumer has received in `log`.  A borrow   *)
(* (&self, &ancestor) is a pointer: the snapshot it points into and the    *)
(* path of fields from the snapshot's root to the borrowed value.          *)
(***************************************************************************)
EXTENDS Naturals, Sequences, FiniteSets, TLC

VARIABLES curr, ancestor, debug, mode, status, stack, log

vars == <<curr, ancestor, debug, mode, status, stack, log>>

\* Largest number of nodes (tags and texts) in one snapshot.
MaxNodes == 3

\* The strings used as tag names, text contents and attribute values.
Strs == {"a", "b"}

(***************************************************************************)
(* The data types.  Tuple fields .0 and .1 are the record fields f0, f1.   *)
(***************************************************************************)
TextStatic(s) == [kind |-> "TextStatic", f0 |-> s]

TextDyn(s) == [kind |-> "TextDyn", f0 |-> s]

TagStatic(t, c, a) == [kind |-> "TagStatic", tag |-> t, children |-> c, attrs |-> a]

TagDyn(t, c, a) == [kind |-> "TagDyn", tag |-> t, children |-> c, attrs |-> a]

NodeListEntry(n) == [kind |-> "NodeListEntry", f0 |-> n]

Pair(l1, l2) == [kind |-> "Pair", f0 |-> l1, f1 |-> l2]

\* An attribute entry and the attribute list a tag carries (crate::attr).
Attr(n, v) == [kind |-> "Attr", name |-> n, value |-> v]

AttrListEntry(x) == [kind |-> "AttrListEntry", f0 |-> x]

AttrLists ==
    { Pair(AttrListEntry(Attr("id", "a")), AttrListEntry(Attr("class", "b"))) }

(***************************************************************************)
(* The snapshots of at most MaxNodes nodes whose strings are drawn from    *)
(* strs, and for a snapshot the values of the same type: the same variant  *)
(* at every position, any strings.                                         *)
(***************************************************************************)
RECURSIVE NodesOfSize(_, _), ListsOfSize(_, _)
NodesOfSize(n, strs) ==
    IF n = 1
    THEN {TextStatic(s) : s \in strs} \cup {TextDyn(s) : s \in strs}
    ELSE {TagStatic(t, c, a) : t \in strs, c \in ListsOfSize(n - 1, strs), a \in AttrLists}
         \cup {TagDyn(t, c, a) : t \in strs, c \in ListsOfSize(n - 1, strs), a \in AttrLists}

ListsOfSize(n, strs) ==
    {NodeListEntry(x) : x \in NodesOfSize(n, strs)}
    \cup UNION {{Pair(l, r) : l \in ListsOfSize(i, strs), r \in ListsOfSize(n - i, strs)} :
                i \in 1..(n - 1)}

Snapshots(strs) == UNION {ListsOfSize(n, strs) : n \in 1..MaxNodes}

RECURSIVE SameType(_)
SameType(x) ==
    CASE x.kind = "Pair" -> {Pair(l, r) : l \in SameType(x.f0), r \in SameType(x.f1)}
      [] x.kind = "NodeListEntry" -> {NodeListEntry(n) : n \in SameType(x.f0)}
      [] x.kind = "TextStatic" -> {TextStatic(s) : s \in Strs}
      [] x.kind = "TextDyn" -> {TextDyn(s) : s \in Strs}
      [] x.kind = "TagStatic" -> {TagStatic(t, c, x.attrs) : t \in Strs, c \in SameType(x.children)}
      [] x.kind = "TagDyn" -> {TagDyn(t, c, x.attrs) : t \in Strs, c \in SameType(x.children)}

(***************************************************************************)
(* The accessors of Tag and Text.                                          *)
(***************************************************************************)
TagStatic_is_tag_static(self) == TRUE

\* Mutant: TagDyn's marker copied from TagStatic.
TagDyn_is_tag_static_copied(self) == TRUE

TagDyn_is_tag_static(self) == FALSE

TextStatic_is_static(self) == TRUE

TextDyn_is_static(self) == FALSE

is_tag_static(self) ==
    IF self.kind = "TagStatic" THEN TagStatic_is_tag_static(self)
    ELSE TagDyn_is_tag_static(self)

is_static(self) ==
    IF self.kind = "TextStatic" THEN TextStatic_is_static(self)
    ELSE TextDyn_is_static(self)

tag(self) == self.tag

get(self) == self.f0

\* debug_assert_eq!(l, r) passes: always in a release build.
\* Mutant: the assertion is written debug_assert_ne!.
debug_assert_ne(l, r) == (~debug) \/ (l # r)

debug_assert_eq(l, r) == (~debug) \/ (l = r)

(***************************************************************************)
(* Borrows.                                                                *)
(***************************************************************************)
Ptr(side, path) == [in |-> side, at |-> path]

RECURSIVE AtPath(_, _)
AtPath(x, path) == IF path = <<>> THEN x ELSE AtPath(x[Head(path)], Tail(path))

Deref(p) == AtPath(IF p.in = "curr" THEN curr ELSE ancestor, p.at)

\* &p.f
FieldOf(p, f) == Ptr(p.in, Append(p.at, f))

(***************************************************************************)
(* Calls.                                                                  *)
(***************************************************************************)
Frame(fn, args) == [fn |-> fn, args |-> args]

Top == Head(stack)

Self == Deref(Top.args[1])

Ancestor == Deref(Top.args[2])

\* The call at the head of the stack is fn on a value of the concrete type kind.
Dispatch(fn, kind) ==
    /\ status = "running"
    /\ stack # <<>>
    /\ Top.fn = fn
    /\ Self.kind = kind

\* The running call returns after making the calls `frames`, in that order.
Return(frames) ==
    /\ stack' = frames \o Tail(stack)
    /\ status' = IF frames \o Tail(stack) = <<>> THEN "done" ELSE "running"

\* The field f of every argument of the running call: (&self.f, &ancestor.f).
Field(f) == [i \in 1..Len(Top.args) |-> FieldOf(Top.args[i], f)]

(***************************************************************************)
(* The consumer.  A callback is logged with its arguments, with what the   *)
(* consumer reads from them through the accessors, and with the calls the  *)
(* consumer makes on the tag before it returns.                            *)
(***************************************************************************)
VisitorCalls ==
    { <<>>, <<"visit_children">>, <<"visit_attr">>, <<"visit_attr", "visit_children">> }

DifferCalls ==
    { <<>>, <<"diff_children">>, <<"diff_attr">>, <<"diff_attr", "diff_children">> }

NodeVisitor_on_tag(t, calls) ==
    [cb |-> "on_tag", args |-> <<t>>, static |-> <<is_tag_static(Deref(t))>>,
     name |-> <<tag(Deref(t))>>, calls |-> calls]

NodeVisitor_on_text(t) ==
    [cb |-> "on_text", args |-> <<t>>, static |-> <<is_static(Deref(t))>>,
     name |-> <<get(Deref(t))>>, calls |-> <<>>]

NodeDiffer_on_tag(c, a, calls) ==
    [cb |-> "on_tag", args |-> <<c, a>>,
     static |-> <<is_tag_static(Deref(c)), is_tag_static(Deref(a))>>,
     name |-> <<tag(Deref(c)), tag(Deref(a))>>, calls |-> calls]

NodeDiffer_on_text(c, a) ==
    [cb |-> "on_text", args |-> <<c, a>>,
     static |-> <<is_static(Deref(c)), is_static(Deref(a))>>,
     name |-> <<get(Deref(c)), get(Deref(a))>>, calls |-> <<>>]

\* The callback e is made.
Deliver(e) == log' = Append(log, e)

\* The calls the consumer makes on the tag from inside on_tag.
ConsumerCalls(calls) == [i \in 1..Len(calls) |-> Frame(calls[i], Top.args)]

(***************************************************************************)
(* crate::attr: AttrList::visit / diff over the nesting of attribute       *)
(* entries, one on_attr callback per entry, left before right.             *)
(***************************************************************************)
RECURSIVE AttrList_visit(_)
AttrList_visit(self) ==
    IF Deref(self).kind = "Pair"
    THEN AttrList_visit(FieldOf(self, "f0")) \o AttrList_visit(FieldOf(self, "f1"))
    ELSE << [cb |-> "on_attr", args |-> <<FieldOf(self, "f0")>>, static |-> <<>>,
             name |-> <<Deref(FieldOf(self, "f0")).name>>, calls |-> <<>>] >>

RECURSIVE AttrList_diff(_, _)
AttrList_diff(self, anc) ==
    IF Deref(self).kind = "Pair"
    THEN AttrList_diff(FieldOf(self, "f0"), FieldOf(anc, "f0"))
         \o AttrList_diff(FieldOf(self, "f1"), FieldOf(anc, "f1"))
    ELSE << [cb |-> "on_attr", args |-> <<FieldOf(self, "f0"), FieldOf(anc, "f0")>>,
             static |-> <<>>,
             name |-> <<Deref(FieldOf(self, "f0")).name, Deref(FieldOf(anc, "f0")).name>>,
             calls |-> <<>>] >>

\* The consumer holds two snapshots of one template: the same type, any strings
\* in the ancestor (a static string that differs is a producer defect the type
\* does not exclude).  The code reads a string only to hand it on or to compare
\* it with the string at the same position of the other snapshot, so the
\* current snapshot's strings are all "a" and the ancestor's range over Strs.
\* `debug` is the build: debug_assertions on or off.
Init ==
    /\ curr \in Snapshots({"a"})
    /\ ancestor \in SameType(curr)
    /\ debug \in BOOLEAN
    /\ mode = "none"
    /\ status = "idle"
    /\ stack = <<>>
    /\ log = <<>>

\* The consumer starts a traversal of the snapshot: curr.visit(visitor) or
\* curr.diff(&ancestor, differ).
Call ==
    /\ status \in {"idle", "done"}
    /\ \E m \in {"visit", "diff"} :
        /\ mode' = m
        /\ stack' = << Frame(m, IF m = "visit" THEN <<Ptr("curr", <<>>)>>
                                ELSE <<Ptr("curr", <<>>), Ptr("ancestor", <<>>)>>) >>
    /\ status' = "running"
    /\ log' = <<>>
    /\ UNCHANGED <<curr, ancestor, debug>>

(***************************************************************************)
(* impl NodeList for (L1, L2) and for NodeListEntry<N>.                    *)
(***************************************************************************)
\* Mutant: the right sub-list is visited before the left one.
PairVisit_right_first ==
    /\ Dispatch("visit", "Pair")
    /\ Return(<< Frame("visit", Field("f1")), Frame("visit", Field("f0")) >>)
    /\ UNCHANGED <<curr, ancestor, debug, mode, log>>

\* Mutant: the left sub-list is visited twice, the right one never.
PairVisit_left_twice ==
    /\ Dispatch("visit", "Pair")
    /\ Return(<< Frame("visit", Field("f0")), Frame("visit", Field("f0")) >>)
    /\ UNCHANGED <<curr, ancestor, debug, mode, log>>

PairVisit ==
    /\ Dispatch("visit", "Pair")
    /\ Return(<< Frame("visit", Field("f0")), Frame("visit", Field("f1")) >>)
    /\ UNCHANGED <<curr, ancestor, debug, mode, log>>

PairDiff ==
    /\ Dispatch("diff", "Pair")
    /\ Return(<< Frame("diff", Field("f0")), Frame("diff", Field("f1")) >>)
    /\ UNCHANGED <<curr, ancestor, debug, mode, log>>

NodeListEntryVisit ==
    /\ Dispatch("visit", "NodeListEntry")
    /\ Return(<< Frame("visit", Field("f0")) >>)
    /\ UNCHANGED <<curr, ancestor, debug, mode, log>>

NodeListEntryDiff ==
    /\ Dispatch("diff", "NodeListEntry")
    /\ Return(<< Frame("diff", Field("f0")) >>)
    /\ UNCHANGED <<curr, ancestor, debug, mode, log>>

(***************************************************************************)
(* impl Tag for TagStatic, impl Node for TagStatic.  A failed assertion    *)
(* panics: the traversal ends with status "panicked" and makes no further  *)
(* call; the stack is kept as it stood, its head the call that failed.     *)
(***************************************************************************)
TagStaticVisitChildren ==
    /\ Dispatch("visit_children", "TagStatic")
    /\ Return(<< Frame("visit", Field("children")) >>)
    /\ UNCHANGED <<curr, ancestor, debug, mode, log>>

\* Mutant: the children are diffed against themselves, not the ancestor's.
TagStaticDiffChildren_self ==
    /\ Dispatch("diff_children", "TagStatic")
    /\ Return(<< Frame("diff", <<Field("children")[1], Field("children")[1]>>) >>)
    /\ UNCHANGED <<curr, ancestor, debug, mode, log>>

TagStaticDiffChildren ==
    /\ Dispatch("diff_children", "TagStatic")
    /\ Return(<< Frame("diff", Field("children")) >>)
    /\ UNCHANGED <<curr, ancestor, debug, mode, log>>

TagStaticVisitAttr ==
    /\ Dispatch("visit_attr", "TagStatic")
    /\ log' = log \o AttrList_visit(Field("attrs")[1])
    /\ Return(<<>>)
    /\ UNCHANGED <<curr, ancestor, debug, mode>>

TagStaticDiffAttr ==
    /\ Dispatch("diff_attr", "TagStatic")
    /\ log' = log \o AttrList_diff(Field("attrs")[1], Field("attrs")[2])
    /\ Return(<<>>)
    /\ UNCHANGED <<curr, ancestor, debug, mode>>

\* Mutant: visit goes on into the children by itself.
TagStaticVisit_recursing ==
    /\ Dispatch("visit", "TagStatic")
    /\ \E calls \in VisitorCalls :
        /\ Deliver(NodeVisitor_on_tag(Top.args[1], calls))
        /\ Return(ConsumerCalls(calls) \o << Frame("visit", Field("children")) >>)
    /\ UNCHANGED <<curr, ancestor, debug, mode>>

TagStaticVisit ==
    /\ Dispatch("visit", "TagStatic")
    /\ \E calls \in VisitorCalls :
        /\ Deliver(NodeVisitor_on_tag(Top.args[1], calls))
        /\ Return(ConsumerCalls(calls))
    /\ UNCHANGED <<curr, ancestor, debug, mode>>

\* Mutant: the assertion on the tag name is missing.
TagStaticDiff_no_assert ==
    /\ Dispatch("diff", "TagStatic")
    /\ \E calls \in DifferCalls :
        /\ Deliver(NodeDiffer_on_tag(Top.args[1], Top.args[2], calls))
        /\ Return(ConsumerCalls(calls))
    /\ UNCHANGED <<curr, ancestor, debug, mode>>

TagStaticDiff ==
    /\ Dispatch("diff", "TagStatic")
    /\ IF debug_assert_eq(Self.tag, Ancestor.tag)
       THEN \E calls \in DifferCalls :
                /\ Deliver(NodeDiffer_on_tag(Top.args[1], Top.args[2], calls))
                /\ Return(ConsumerCalls(calls))
       ELSE /\ status' = "panicked"
            /\ UNCHANGED <<stack, log>>
    /\ UNCHANGED <<curr, ancestor, debug, mode>>

(***************************************************************************)
(* impl Tag for TagDyn, impl Node for TagDyn.                              *)
(***************************************************************************)
TagDynVisitChildren ==
    /\ Dispatch("visit_children", "TagDyn")
    /\ Return(<< Frame("visit", Field("children")) >>)
    /\ UNCHANGED <<curr, ancestor, debug, mode, log>>

TagDynDiffChildren ==
    /\ Dispatch("diff_children", "TagDyn")
    /\ Return(<< Frame("diff", Field("children")) >>)
    /\ UNCHANGED <<curr, ancestor, debug, mode, log>>

TagDynVisitAttr ==
    /\ Dispatch("visit_attr", "TagDyn")
    /\ log' = log \o AttrList_visit(Field("attrs")[1])
    /\ Return(<<>>)
    /\ UNCHANGED <<curr, ancestor, debug, mode>>

TagDynDiffAttr ==
    /\ Dispatch("diff_attr", "TagDyn")
    /\ log' = log \o AttrList_diff(Field("attrs")[1], Field("attrs")[2])
    /\ Return(<<>>)
    /\ UNCHANGED <<curr, ancestor, debug, mode>>

TagDynVisit ==
    /\ Dispatch("visit", "TagDyn")
    /\ \E calls \in VisitorCalls :
        /\ Deliver(NodeVisitor_on_tag(Top.args[1], calls))
        /\ Return(ConsumerCalls(calls))
    /\ UNCHANGED <<curr, ancestor, debug, mode>>

\* Mutant: the arguments of the callback are exchanged.
TagDynDiff_swapped ==
    /\ Dispatch("diff", "TagDyn")
    /\ \E calls \in DifferCalls :
        /\ Deliver(NodeDiffer_on_tag(Top.args[2], Top.args[1], calls))
        /\ Return(ConsumerCalls(calls))
    /\ UNCHANGED <<curr, ancestor, debug, mode>>

TagDynDiff ==
    /\ Dispatch("diff", "TagDyn")
    /\ \E calls \in DifferCalls :
        /\ Deliver(NodeDiffer_on_tag(Top.args[1], Top.args[2], calls))
        /\ Return(ConsumerCalls(calls))
    /\ UNCHANGED <<curr, ancestor, debug, mode>>

(***************************************************************************)
(* impl Node for TextStatic, impl Node for TextDyn.                        *)
(***************************************************************************)
TextStaticVisit ==
    /\ Dispatch("visit", "TextStatic")
    /\ Deliver(NodeVisitor_on_text(Top.args[1]))
    /\ Return(<<>>)
    /\ UNCHANGED <<curr, ancestor, debug, mode>>

\* Mutant: the callback is made before the assertion is checked.
TextStaticDiff_late_assert ==
    /\ Dispatch("diff", "TextStatic")
    /\ Deliver(NodeDiffer_on_text(Top.args[1], Top.args[2]))
    /\ IF debug_assert_eq(Self.f0, Ancestor.f0)
       THEN Return(<<>>)
       ELSE /\ status' = "panicked"
            /\ UNCHANGED stack
    /\ UNCHANGED <<curr, ancestor, debug, mode>>

TextStaticDiff ==
    /\ Dispatch("diff", "TextStatic")
    /\ IF debug_assert_eq(Self.f0, Ancestor.f0)
       THEN /\ Deliver(NodeDiffer_on_text(Top.args[1], Top.args[2]))
            /\ Return(<<>>)
       ELSE /\ status' = "panicked"
            /\ UNCHANGED <<stack, log>>
    /\ UNCHANGED <<curr, ancestor, debug, mode>>

TextDynVisit ==
    /\ Dispatch("visit", "TextDyn")
    /\ Deliver(NodeVisitor_on_text(Top.args[1]))
    /\ Return(<<>>)
    /\ UNCHANGED <<curr, ancestor, debug, mode>>

\* Mutant: the dynamic text asserts equality like the static one.
TextDynDiff_asserting ==
    /\ Dispatch("diff", "TextDyn")
    /\ IF debug_assert_eq(Self.f0, Ancestor.f0)
       THEN /\ Deliver(NodeDiffer_on_text(Top.args[1], Top.args[2]))
            /\ Return(<<>>)
       ELSE /\ status' = "panicked"
            /\ UNCHANGED <<stack, log>>
    /\ UNCHANGED <<curr, ancestor, debug, mode>>

TextDynDiff ==
    /\ Dispatch("diff", "TextDyn")
    /\ Deliver(NodeDiffer_on_text(Top.args[1], Top.args[2]))
    /\ Return(<<>>)
    /\ UNCHANGED <<curr, ancestor, debug, mode>>

Next ==
    \/ Call
    \/ PairVisit
    \/ PairDiff
    \/ NodeListEntryVisit
    \/ NodeListEntryDiff
    \/ TagStaticVisitChildren
    \/ TagStaticDiffChildren
    \/ TagStaticVisitAttr
    \/ TagStaticDiffAttr
    \/ TagStaticVisit
    \/ TagStaticDiff
    \/ TagDynVisitChildren
    \/ TagDynDiffChildren
    \/ TagDynVisitAttr
    \/ TagDynDiffAttr
    \/ TagDynVisit
    \/ TagDynDiff
    \/ TextStaticVisit
    \/ TextStaticDiff
    \/ TextDynVisit
    \/ TextDynDiff

Spec == Init /\ [][Next]_vars

(***************************************************************************)
(* Vocabulary of the properties.                                           *)
(***************************************************************************)
Range(s) == {s[i] : i \in DOMAIN s}

IsPrefix(s, t) == Len(s) <= Len(t) /\ SubSeq(t, 1, Len(s)) = s

IsTag(x) == x.kind \in {"TagStatic", "TagDyn"}

IsText(x) == x.kind \in {"TextStatic", "TextDyn"}

IsNodeCallback(e) == e.cb \in {"on_tag", "on_text"}

\* The string a node holds: its tag name or its text content.
Content(x) == IF IsTag(x) THEN x.tag ELSE x.f0

\* The entries of the list l, left sub-list completely before right sub-list.
RECURSIVE Flatten(_)
Flatten(l) ==
    IF Deref(l).kind = "Pair"
    THEN Flatten(FieldOf(l, "f0")) \o Flatten(FieldOf(l, "f1"))
    ELSE << FieldOf(l, "f0") >>

\* The number of entries in the nesting of pairs x.
RECURSIVE Leaves(_)
Leaves(x) == IF x.kind = "Pair" THEN Leaves(x.f0) + Leaves(x.f1) ELSE 1

Root(side) == Ptr(side, <<>>)

\* The field paths from the list x to each of its nodes, the children of its
\* tags included.
RECURSIVE NodePaths(_)
NodePaths(x) ==
    IF x.kind = "Pair"
    THEN {<<"f0">> \o q : q \in NodePaths(x.f0)} \cup {<<"f1">> \o q : q \in NodePaths(x.f1)}
    ELSE {<<"f0">>}
         \cup (IF IsTag(x.f0)
               THEN {<<"f0", "children">> \o q : q \in NodePaths(x.f0.children)}
               ELSE {})

\* Every node of the snapshot on the given side.
NodesIn(side) == {Ptr(side, q) : q \in NodePaths(IF side = "curr" THEN curr ELSE ancestor)}

\* Every node list of the current snapshot: the root and each tag's children.
ListPtrs ==
    {Root("curr")}
    \cup {FieldOf(n, "children") : n \in {m \in NodesIn("curr") : IsTag(Deref(m))}}

NodePtrs == NodesIn("curr") \cup NodesIn("ancestor")

\* The node at p is an entry of the list l itself, not of a list further down.
IsEntryOf(l, p) ==
    /\ p.in = l.in
    /\ IsPrefix(l.at, p.at)
    /\ \A i \in (Len(l.at) + 1)..Len(p.at) : p.at[i] \notin {"children", "attrs"}

\* The first arguments of the node callbacks received for entries of l, in
\* the order received.
Delivered(l) ==
    LET sel == SelectSeq(log, LAMBDA e : IsNodeCallback(e) /\ IsEntryOf(l, e.args[1]))
    IN  [i \in 1..Len(sel) |-> sel[i].args[1]]

\* The list l is traversed in this run: it is the root, or the consumer asked
\* for the children of its tag.
Requested(l) ==
    \/ l = Root("curr")
    \/ \E i \in DOMAIN log :
        /\ log[i].cb = "on_tag"
        /\ FieldOf(log[i].args[1], "children") = l
        /\ Range(log[i].calls) \cap {"visit_children", "diff_children"} # {}

NodeCall ==
    /\ status = "running"
    /\ stack # <<>>
    /\ Top.fn \in {"visit", "diff"}
    /\ IsTag(Self) \/ IsText(Self)

\* The steps of a path that leave a tag for its children or its attributes.
Descents(path) == {i \in DOMAIN path : path[i] \in {"children", "attrs"}}

LastDescent(path) == CHOOSE i \in Descents(path) : \A j \in Descents(path) : j <= i

\* The tag that owns the child or attribute at p, and the call that leads to p.
Owner(p) == Ptr(p.in, SubSeq(p.at, 1, LastDescent(p.at) - 1))

OwnerCall(p) ==
    IF p.at[LastDescent(p.at)] = "children"
    THEN (IF mode = "visit" THEN "visit_children" ELSE "diff_children")
    ELSE (IF mode = "visit" THEN "visit_attr" ELSE "diff_attr")

(***************************************************************************)
(* C1.  One call to visit or diff on a node makes exactly one callback:    *)
(* on_tag for a tag, on_text for a text, with the node itself as argument, *)
(* and for diff with (current, ancestor) in that order.                    *)
(***************************************************************************)
C1_OneCallbackPerCall ==
    [][ (NodeCall /\ status' # "panicked") =>
            /\ Len(log') = Len(log) + 1
            /\ SubSeq(log', 1, Len(log)) = log
            /\ log'[Len(log')].cb = (IF IsTag(Self) THEN "on_tag" ELSE "on_text")
            /\ log'[Len(log')].args = Top.args
            /\ Top.args[1].in = "curr"
            /\ Len(Top.args) = (IF Top.fn = "visit" THEN 1 ELSE 2)
            /\ (Top.fn = "diff" => Top.args[2].in = "ancestor") ]_vars

C1_Witness ==
    /\ mode = "diff"
    /\ \E i, j \in DOMAIN log : log[i].cb = "on_tag" /\ log[j].cb = "on_text"

(***************************************************************************)
(* C2.  visit and diff on a tag do not recurse: a callback for a child or  *)
(* an attribute of a tag is received only after the on_tag callback of     *)
(* that tag in which the consumer made the call that leads to it; and a    *)
(* call on a tag whose consumer makes no call leaves nothing behind it.    *)
(***************************************************************************)
C2_NoAutomaticRecursion ==
    /\ \A i \in DOMAIN log :
        Descents(log[i].args[1].at) # {} =>
            \E j \in 1..(i - 1) :
                /\ log[j].cb = "on_tag"
                /\ log[j].args[1] = Owner(log[i].args[1])
                /\ OwnerCall(log[i].args[1]) \in Range(log[j].calls)
    /\ \A k \in DOMAIN stack :
        Descents(stack[k].args[1].at) # {} =>
            \E j \in DOMAIN log :
                /\ log[j].cb = "on_tag"
                /\ log[j].args[1] = Owner(stack[k].args[1])
                /\ OwnerCall(stack[k].args[1]) \in Range(log[j].calls)

C2_Witness ==
    /\ status = "done"
    /\ Len(log) = 1
    /\ log[1].cb = "on_tag"
    /\ log[1].calls = <<>>
    /\ Deref(log[1].args[1]).children.kind = "Pair"
    /\ Deref(log[1].args[1]).attrs.kind = "Pair"

(***************************************************************************)
(* C3.  Visit and diff deliver the entries of a node list in declaration   *)
(* order: what has been delivered for a list is always an initial part of  *)
(* its left-to-right flattening, and all of it once the traversal is done. *)
(***************************************************************************)
C3_DeclarationOrder ==
    \A l \in ListPtrs :
        /\ IsPrefix(Delivered(l), Flatten(l))
        /\ (status = "done" /\ Requested(l)) => Delivered(l) = Flatten(l)

C3_Witness ==
    /\ status = "done"
    /\ mode = "diff"
    /\ curr.kind = "Pair"
    /\ curr.f0.kind = "Pair"
    /\ Len(Delivered(Root("curr"))) = 3

(***************************************************************************)
(* C4.  Visiting a node list of N entries makes exactly N callbacks for    *)
(* them: every entry is reported once, none twice, none is left out.       *)
(***************************************************************************)
C4_ExactlyOncePerLeaf ==
    /\ \A p \in NodesIn("curr") :
        Cardinality({i \in DOMAIN log : IsNodeCallback(log[i]) /\ log[i].args[1] = p}) <= 1
    /\ (status = "done" /\ mode = "visit") =>
        \A l \in {m \in ListPtrs : Requested(m)} :
            /\ Len(Delivered(l)) = Leaves(Deref(l))
            /\ \A p \in Range(Flatten(l)) :
                Cardinality({i \in DOMAIN log :
                                IsNodeCallback(log[i]) /\ log[i].args[1] = p}) = 1

C4_Witness ==
    /\ status = "done"
    /\ mode = "visit"
    /\ Leaves(curr) = 3
    /\ Len(log) = 3

(***************************************************************************)
(* C5.  Diffing a snapshot against an equal one fails no assertion, and    *)
(* every callback receives an equal (current, ancestor) pair; when the     *)
(* traversal is done every entry of every traversed list was delivered.    *)
(***************************************************************************)
C5_DiffAgainstEqual ==
    (mode = "diff" /\ curr = ancestor) =>
        /\ status # "panicked"
        /\ \A i \in DOMAIN log :
            /\ Deref(log[i].args[1]) = Deref(log[i].args[2])
            /\ log[i].name[1] = log[i].name[2]
        /\ status = "done" =>
            \A l \in {m \in ListPtrs : Requested(m)} : Delivered(l) = Flatten(l)

C5_Witness ==
    /\ status = "done"
    /\ mode = "diff"
    /\ debug
    /\ curr = ancestor
    /\ curr.kind = "NodeListEntry"
    /\ curr.f0.kind = "TagStatic"
    /\ Len(log) = 3
    /\ Deref(log[2].args[1]).kind = "TextStatic"
    /\ Deref(log[3].args[1]).kind = "TextDyn"

(***************************************************************************)
(* C6.  diff on a dynamic leaf (TextDyn, TagDyn) never compares: whatever  *)
(* the two values are, it makes the one callback with the pair unchanged   *)
(* and fails no assertion.                                                 *)
(***************************************************************************)
C6_DynamicNeverCompared ==
    [][ (NodeCall /\ Top.fn = "diff" /\ Self.kind \in {"TextDyn", "TagDyn"}) =>
            /\ status' # "panicked"
            /\ Len(log') = Len(log) + 1
            /\ SubSeq(log', 1, Len(log)) = log
            /\ log'[Len(log')].args = Top.args
            /\ log'[Len(log')].name = <<Content(Self), Content(Ancestor)>> ]_vars

C6_Witness ==
    /\ debug
    /\ \E i, j \in DOMAIN log :
        /\ Deref(log[i].args[1]).kind = "TextDyn"
        /\ Len(log[i].args) = 2
        /\ log[i].name[1] # log[i].name[2]
        /\ Deref(log[j].args[1]).kind = "TagDyn"
        /\ log[j].name[1] = log[j].name[2]

(***************************************************************************)
(* C7.  diff on a static-name tag whose two names differ fails the         *)
(* assertion in a debug build; in a release build it makes the callback    *)
(* and the traversal goes on.  A diff fails in no other way than on a      *)
(* static tag or static text whose two values differ, in a debug build.    *)
(***************************************************************************)
C7_PanicOnlyAt ==
    status = "panicked" =>
        /\ debug
        /\ Top.fn = "diff"
        /\ Self.kind \in {"TagStatic", "TextStatic"}
        /\ Content(Self) # Content(Ancestor)

C7_StaticTagStep ==
    (NodeCall /\ Top.fn = "diff" /\ Self.kind = "TagStatic" /\ Self.tag # Ancestor.tag) =>
        IF debug
        THEN status' = "panicked" /\ log' = log
        ELSE /\ status' # "panicked"
             /\ Len(log') = Len(log) + 1
             /\ log'[Len(log')].args = Top.args
             /\ log'[Len(log')].name = <<Self.tag, Ancestor.tag>>
             /\ \E calls \in DifferCalls : stack' = ConsumerCalls(calls) \o Tail(stack)

C7_DebugAssertion == [] C7_PanicOnlyAt /\ [][C7_StaticTagStep]_vars

C7_Witness ==
    /\ status = "panicked"
    /\ Self.kind = "TagStatic"
    /\ Len(log) > 0

(***************************************************************************)
(* C8.  The static / dynamic marker of a node is fixed by its variant:     *)
(* true for TagStatic and TextStatic, false for TagDyn and TextDyn,        *)
(* whatever the content, wherever the consumer reads it, and the same      *)
(* before and after every step of every visit and diff.                    *)
(***************************************************************************)
Marker(p) == IF IsTag(Deref(p)) THEN is_tag_static(Deref(p)) ELSE is_static(Deref(p))

C8_MarkerOfVariant ==
    /\ \A p \in NodePtrs : Marker(p) = (Deref(p).kind \in {"TagStatic", "TextStatic"})
    /\ \A i \in DOMAIN log :
        IsNodeCallback(log[i]) =>
            \A k \in DOMAIN log[i].args :
                log[i].static[k] = (Deref(log[i].args[k]).kind \in {"TagStatic", "TextStatic"})

C8_MarkerConstant ==
    [] C8_MarkerOfVariant /\ [][\A p \in NodePtrs : Marker(p)' = Marker(p)]_vars

C8_Witness ==
    /\ status = "done"
    /\ mode = "diff"
    /\ \E i, j \in DOMAIN log :
        /\ log[i].cb = "on_tag"
        /\ log[i].static = <<FALSE, FALSE>>
        /\ log[i].name[1] # log[i].name[2]
        /\ log[j].cb = "on_text"
        /\ log[j].static = <<TRUE, TRUE>>

(***************************************************************************)
(* C9.  diff pairs positionally: every paired callback receives as current *)
(* the value at some position of the current snapshot and as ancestor the  *)
(* value at the same position of the ancestor snapshot, never swapped.     *)
(***************************************************************************)
C9_PositionalPairing ==
    \A i \in DOMAIN log :
        Len(log[i].args) = 2 =>
            /\ log[i].args[1].in = "curr"
            /\ log[i].args[2].in = "ancestor"
            /\ log[i].args[1].at = log[i].args[2].at
            /\ IsNodeCallback(log[i]) =>
                log[i].name = <<Content(AtPath(curr, log[i].args[1].at)),
                                Content(AtPath(ancestor, log[i].args[1].at))>>

C9_Witness ==
    /\ status = "done"
    /\ \E i, j \in DOMAIN log :
        /\ i # j
        /\ Len(log[i].args) = 2
        /\ Len(log[j].args) = 2
        /\ IsNodeCallback(log[i]) /\ IsNodeCallback(log[j])
        /\ Descents(log[i].args[1].at) # {}
        /\ Descents(log[j].args[1].at) # {}
        /\ Owner(log[i].args[1]) = Owner(log[j].args[1])
        /\ log[i].name[1] # log[i].name[2]

(***************************************************************************)
(* C10.  In a debug build the check of a static leaf comes before the      *)
(* callback: when it fails, the callbacks of every list around the failing *)
(* node are those of the positions before it, the failing node has none,   *)
(* and nothing follows.  In a release build nothing fails, the unequal     *)
(* pair is delivered and the traversal goes on to the end.                 *)
(***************************************************************************)
\* The entries of l the traversal has passed when it stands at the node p:
\* those before p, and the one whose subtree holds p.
PassedBefore(l, p) ==
    LET F == Flatten(l)
        k == CHOOSE i \in DOMAIN F : IsPrefix(F[i].at, p.at)
    IN  SubSeq(F, 1, IF F[k] = p THEN k - 1 ELSE k)

C10_AtPanic ==
    status = "panicked" =>
        /\ \A l \in ListPtrs :
            IF IsPrefix(l.at, Top.args[1].at)
            THEN Delivered(l) = PassedBefore(l, Top.args[1])
            ELSE TRUE
        /\ \A i \in DOMAIN log : log[i].args[1] # Top.args[1]

C10_Release ==
    (~debug) =>
        /\ status # "panicked"
        /\ (status = "done" /\ mode = "diff") =>
            \A l \in {m \in ListPtrs : Requested(m)} :
                /\ Delivered(l) = Flatten(l)
                /\ \A i \in DOMAIN log :
                    IsNodeCallback(log[i]) =>
                        log[i].name = <<Content(Deref(log[i].args[1])),
                                        Content(Deref(log[i].args[2]))>>

C10_CheckBeforeCallback ==
    [] (C10_AtPanic /\ C10_Release) /\ [][status # "panicked"]_vars

C10_Witness ==
    /\ status = "panicked"
    /\ Len(Delivered(Root("curr"))) > 0
    /\ Len(Delivered(Root("curr"))) + 1 < Len(Flatten(Root("curr")))

====
